---- MODULE Spec2Model ----
(***************************************************************************)
(* A model of ssm-ctl: the parameter-file compilation engine               *)
(* (src/ssm_ctl/parameters.py, src/ssm_ctl/files.py) and the push/delete   *)
(* command line runs (src/ssm_ctl/cli.py).                                 *)
(*                                                                         *)
(* Text is modelled character by character: a Python string is a sequence  *)
(* of one-character strings, so that the reference pattern, substitution   *)
(* and joining are computed as the code computes them.  Python values are  *)
(* tagged records (field t), so that isinstance tests and truth tests can  *)
(* be made as the code makes them.                                         *)
(***************************************************************************)
EXTENDS Integers, Sequences, FiniteSets, TLC

VARIABLES
    \* ---- the process-wide registries of VarString ----
    NAMES,         \* VarString.NAMES: the set of names referenced so far
    VAR_VALUES,    \* VarString._VAR_VALUES: name -> Input or resolver

    \* ---- a VarString under test (SpecVar) ----
    vs,            \* the VarString object, None before its construction
    vsOut,         \* what the last read of vs.value returned

    \* ---- SSMParameter.load under test (SpecLoad) ----
    ldObj,         \* the entry handed to SSMParameter.load
    ldMode,        \* vars_in_name_only
    ldOut,         \* the outcome of the load

    \* ---- an Input under test (SpecInput) ----
    inp,           \* the Input object, None before its construction
    inpCall,       \* the last call made on it and what it returned
    inpSetArgs,    \* the `encrypted` arguments set_value was called with

    \* ---- two .INPUT sections merged (SpecMerge) ----
    mrgLoaded,     \* whether the two sections were loaded
    mrgA,          \* the Inputs of one document
    mrgB,          \* the Inputs of another document
    mrgAB,         \* merge_inputs(mrgA, mrgB): what it raised, inputs afterwards
    mrgBA,         \* merge_inputs(mrgB, mrgA): what it raised, inputs afterwards

    \* ---- a parameter document parsed and compiled (SpecDoc) ----
    docObj,        \* the document, as yaml.safe_load gives it
    docData,       \* parse_parameter_file(docObj)
    docOut,        \* compile_parameter_file of the parsed parameters

    \* ---- SSMClient.batch_put under test (SpecBatch) ----
    bpArgs,        \* the parameters to put, in argument order
    bpOut,         \* what batch_put raised and the writes the store received

    \* ---- a push or delete run of the command line (Spec) ----
    pc,            \* where the run is
    runCommand,    \* "push" or "delete"
    runArgs,       \* the parsed arguments
    runStdin,      \* the lines the user still has to type
    runInputs,     \* inputs
    runParameters, \* parameters: name and parameter, in dict order
    runFlush,      \* flush_paths
    runCalls,      \* the calls the remote store received, in order
    runPrinted,    \* what --dry-run printed
    runErr,        \* what ended the run, None while it goes on
    runResolved,   \* VarString.resolve has returned
    runLookups     \* the names VarString.value looked up in _VAR_VALUES

regVars  == <<NAMES, VAR_VALUES>>
varVars  == <<vs, vsOut>>
loadVars == <<ldObj, ldMode, ldOut>>
inpVars  == <<inp, inpCall, inpSetArgs>>
mrgVars  == <<mrgLoaded, mrgA, mrgB, mrgAB, mrgBA>>
docVars  == <<docObj, docData, docOut>>
bpVars   == <<bpArgs, bpOut>>
runVars  == <<pc, runCommand, runArgs, runStdin, runInputs, runParameters, runFlush, runCalls, runPrinted, runErr, runResolved, runLookups>>
vars     == <<regVars, varVars, loadVars, inpVars, mrgVars, docVars, bpVars, runVars>>

\* what the actions of each specification leave alone
notVar   == <<loadVars, inpVars, mrgVars, docVars, bpVars, runVars>>
notLoad  == <<varVars, inpVars, mrgVars, docVars, bpVars, runVars>>
notInput == <<regVars, varVars, loadVars, mrgVars, docVars, bpVars, runVars>>
notMerge == <<regVars, varVars, loadVars, inpVars, docVars, bpVars, runVars>>
notDoc   == <<varVars, loadVars, inpVars, mrgVars, bpVars, runVars>>
notBatch == <<varVars, loadVars, inpVars, mrgVars, docVars, runVars>>
notRun   == <<varVars, loadVars, inpVars, mrgVars, docVars, bpVars>>

(***************************************************************************)
(* Python values                                                           *)
(***************************************************************************)
None      == [t |-> "None"]
Str(s)    == [t |-> "str", v |-> s]
List(l)   == [t |-> "list", v |-> l]
Bool(b)   == [t |-> "bool", v |-> b]
Raise(e)  == [t |-> "raise", v |-> e]
Dict(d)   == [t |-> "dict", v |-> d]

IsStr(o)  == o.t = "str"
IsList(o) == o.t = "list"
IsRaise(o) == o.t = "raise"

\* Python's truth test.  A VarString, an Input and an SSMParameter define
\* neither __bool__ nor __len__, so such an object is always true.
Truthy(o) ==
    CASE o.t = "None" -> FALSE
      [] o.t = "str"  -> o.v # <<>>
      [] o.t = "list" -> o.v # <<>>
      [] o.t = "bool" -> o.v
      [] OTHER        -> TRUE

Range(f) == {f[i] : i \in DOMAIN f}

\* F applied to the value of x: x is evaluated once, and F sees the value
With(x, F(_)) == CHOOSE y \in {F(v) : v \in {x}} : TRUE

\* A Python dict is a function from its keys; Absent marks a key that is
\* left out when a dict is built from a record of options.
Absent == [t |-> "absent"]
MkDict(rec) == [k \in {f \in DOMAIN rec : rec[f] # Absent} |-> rec[k]]
Has(obj, k) == k \in DOMAIN obj
Get(obj, k) == IF k \in DOMAIN obj THEN obj[k] ELSE None
EmptyDict == <<>>
Put(d, k, v) == [x \in DOMAIN d \cup {k} |-> IF x = k THEN v ELSE d[x]]

(***************************************************************************)
(* Characters                                                              *)
(***************************************************************************)
\* The characters of the model in code point order (sorted() compares
\* strings by code point).
Ascii ==
    << "$", "(", ")", ",", ".", "/",
       "0", "1", "2", "3", "4", "5", "6", "7", "8", "9",
       "A", "B", "C", "D", "E", "F", "G", "H", "I", "J", "K", "L", "M",
       "N", "O", "P", "Q", "R", "S", "T", "U", "V", "W", "X", "Y", "Z",
       "_",
       "a", "b", "c", "d", "e", "f", "g", "h", "i", "j", "k", "l", "m",
       "n", "o", "p", "q", "r", "s", "t", "u", "v", "w", "x", "y", "z" >>

Code(c) == CHOOSE i \in 1..Len(Ascii) : Ascii[i] = c

\* VarString._VAR_NAME_PATTERN_STR: \w
WordChars == Range(Ascii) \ {"$", "(", ")", ",", ".", "/"}

RECURSIVE StrLess(_, _)
StrLess(a, b) ==
    IF a = <<>> THEN b # <<>>
    ELSE IF b = <<>> THEN FALSE
    ELSE IF a[1] = b[1] THEN StrLess(Tail(a), Tail(b))
    ELSE Code(a[1]) < Code(b[1])

\* sorted(S) for a set of strings
RECURSIVE Sorted(_)
Sorted(S) ==
    IF S = {} THEN <<>>
    ELSE LET m == CHOOSE x \in S : \A y \in S \ {x} : StrLess(x, y)
         IN  <<m>> \o Sorted(S \ {m})

RECURSIVE Concat(_)
Concat(ss) == IF ss = <<>> THEN <<>> ELSE Head(ss) \o Concat(Tail(ss))

\* sep.join(ss)
RECURSIVE Join(_, _)
Join(sep, ss) ==
    IF ss = <<>> THEN <<>>
    ELSE IF Len(ss) = 1 THEN ss[1]
    ELSE ss[1] \o sep \o Join(sep, Tail(ss))

(***************************************************************************)
(* VarString: the reference pattern                                        *)
(***************************************************************************)
\* The last index of the longest run of \w characters of s starting at i
\* (i - 1 when s[i] is no \w character).
RECURSIVE WordRunEnd(_, _)
WordRunEnd(s, i) ==
    IF i <= Len(s) /\ s[i] \in WordChars THEN WordRunEnd(s, i + 1) ELSE i - 1

\* _REFERENCE_PATTERN = \$\((\w+)\) matched at position i: the index of the
\* closing parenthesis, 0 when there is no match at i.  \w+ is greedy and
\* ")" is no \w character, so the run of \w must end right before ")".
MatchEnd(s, i) ==
    IF i + 1 <= Len(s) /\ s[i] = "$" /\ s[i + 1] = "("
    THEN LET j == WordRunEnd(s, i + 2)
         IN  IF j >= i + 2 /\ j + 1 <= Len(s) /\ s[j + 1] = ")" THEN j + 1 ELSE 0
    ELSE 0

\* get_reference_pattern().findall(s): the names of the non-overlapping
\* matches, scanning from the left.
RECURSIVE FindAllFrom(_, _)
FindAllFrom(s, i) ==
    IF i > Len(s) THEN <<>>
    ELSE LET e == MatchEnd(s, i)
         IN  IF e = 0 THEN FindAllFrom(s, i + 1)
             ELSE <<SubSeq(s, i + 2, e - 1)>> \o FindAllFrom(s, e + 1)

FindAll(s) == FindAllFrom(s, 1)

\* re.fullmatch of the reference pattern / of the name pattern
FullMatchReference(s) == s # <<>> /\ MatchEnd(s, 1) = Len(s)
FullMatchName(s) == s # <<>> /\ \A i \in 1..Len(s) : s[i] \in WordChars

\* '$({})'.format(name)
Ref(name) == <<"$", "(">> \o name \o <<")">>

\* get_reference_pattern(name).sub(repl, s): every non-overlapping
\* occurrence of the literal text $(name) in s, from the left, replaced by
\* repl.  (The alphabet has no backslash, so repl has no escapes for
\* re.sub to expand.)
RECURSIVE SubFrom(_, _, _, _)
SubFrom(lit, repl, s, i) ==
    IF i > Len(s) THEN <<>>
    ELSE IF i + Len(lit) - 1 <= Len(s) /\ SubSeq(s, i, i + Len(lit) - 1) = lit
         THEN repl \o SubFrom(lit, repl, s, i + Len(lit))
         ELSE <<s[i]>> \o SubFrom(lit, repl, s, i + 1)

Sub(name, repl, s) == SubFrom(Ref(name), repl, s, 1)

(***************************************************************************)
(* VarString objects                                                       *)
(***************************************************************************)
\* VarString.__init__(s, key_id), the object built (the registration of
\* its names in VarString.NAMES is made by the action that constructs it).
VarString(s, key_id) ==
    [t      |-> "VarString",
     string |-> s,
     names  |-> FindAll(s),
     key_id |-> key_id,
     value  |-> IF FindAll(s) # <<>> THEN None ELSE Str(s)]

\* VarString.load(obj, key_id)
VarStringLoad(obj, key_id) == IF IsStr(obj) THEN VarString(obj.v, key_id) ELSE obj

(***************************************************************************)
(* The encryption provider (SSMClient.encrypt / SSMClient.decrypt)         *)
(***************************************************************************)
\* The ciphertext of plaintext p under key k.  The provider is outside the
\* program; the model only needs decrypt to invert encrypt under the same
\* key and to fail on anything else.
Encrypt(p, k) == <<"E">> \o k \o <<"(">> \o p \o <<")">>

IsCipherFor(c, k) ==
    /\ Len(c) >= Len(k) + 3
    /\ SubSeq(c, 1, Len(k) + 2) = <<"E">> \o k \o <<"(">>
    /\ c[Len(c)] = ")"

\* SSMClient.decrypt(ciphertext, key_id): a Python value
Decrypt(c, k) ==
    IF IsStr(c) /\ IsCipherFor(c.v, k)
    THEN Str(SubSeq(c.v, Len(k) + 3, Len(c.v) - 1))
    ELSE Raise("DecryptError")

(***************************************************************************)
(* Input (files.py)                                                        *)
(***************************************************************************)
T_String       == <<"S", "t", "r", "i", "n", "g">>
T_SecureString == <<"S", "e", "c", "u", "r", "e">> \o T_String
T_StringList   == T_String \o <<"L", "i", "s", "t">>

\* Input.__init__(name, type, pattern, description, default)
Input(name, type, pattern, description, default) ==
    [t               |-> "Input",
     name            |-> name,
     type            |-> IF Truthy(type) THEN type ELSE Str(T_String),
     pattern         |-> pattern,
     description     |-> description,
     default         |-> default,
     value           |-> None,
     encrypted_value |-> None,
     decrypted_value |-> None]

\* Input.value_is_set(): self._value or self._encrypted_value
InputValueIsSet(i) == Truthy(i.value) \/ Truthy(i.encrypted_value)

\* Input.set_value with a truth test of encrypted in place of
\* "encrypted is not False"
InputSetValueIfEncrypted(i, value, encrypted) ==
    IF i.type = Str(T_SecureString) /\ Truthy(encrypted)
    THEN [i EXCEPT !.encrypted_value = value]
    ELSE [i EXCEPT !.value = value]

\* Input.set_value(value, encrypted): the Input afterwards
InputSetValue(i, value, encrypted) ==
    IF i.type = Str(T_SecureString) /\ encrypted # Bool(FALSE)
    THEN [i EXCEPT !.encrypted_value = value]
    ELSE [i EXCEPT !.value = value]

\* Input.get_value(key_id): [r |-> what is returned or raised,
\*                           self |-> the Input afterwards]
InputGetValue(i, key_id) ==
    IF Truthy(key_id)
    THEN IF Truthy(i.decrypted_value)
         THEN [r |-> i.decrypted_value, self |-> i]
         ELSE LET d == IF Truthy(i.encrypted_value)
                       THEN Decrypt(i.encrypted_value, key_id.v)
                       ELSE Decrypt(i.value, key_id.v)
              IN  IF d.t = "raise" THEN [r |-> d, self |-> i]
                  ELSE [r |-> d, self |-> [i EXCEPT !.decrypted_value = d]]
    ELSE [r |-> i.value, self |-> i]

\* s contains sub (',' in entry; re.search for a pattern of literal text)
Contains(s, sub) ==
    \E i \in 0..(Len(s) - Len(sub)) : SubSeq(s, i + 1, i + Len(sub)) = sub

\* re.search(pattern, value): the patterns of the model are literal text
\* (no metacharacter), for which re.search is a substring test
ReSearch(pattern, value) == Contains(value, pattern)

\* Input._prompt_for_string(echo), the user typing `line` (with or without
\* echo, one line is read): the value returned, or InputError
PromptForString(i, line) ==
    IF line = <<>> /\ Truthy(i.default) THEN i.default
    ELSE IF Truthy(i.pattern) /\ ~ReSearch(i.pattern.v, line)
    THEN Raise("InputError: Invalid input")
    ELSE Str(line)

\* the loop of Input._prompt_for_stringlist: while entry: entry = input_fn();
\* value.append(entry).  lines is what is still to be typed; the input
\* ending before a blank line is an EOFError.
RECURSIVE ReadEntries(_, _, _)
ReadEntries(value, entry, lines) ==
    IF entry = <<>> THEN List(value)
    ELSE IF lines = <<>> THEN Raise("EOFError")
    ELSE ReadEntries(Append(value, Str(Head(lines))), Head(lines), Tail(lines))

\* Input._prompt_for_stringlist(echo), the user typing `lines`
PromptForStringList(i, lines) ==
    IF lines = <<>> THEN Raise("EOFError")
    ELSE LET entry == Head(lines)
         IN  IF entry = <<>> /\ Truthy(i.default) THEN i.default
             ELSE IF Contains(entry, <<",">>) THEN Str(entry)
             ELSE LET value == ReadEntries(<<Str(entry)>>, entry, Tail(lines))
                  IN  IF IsRaise(value) THEN value
                      ELSE IF /\ Truthy(i.pattern)
                              /\ ~ReSearch(i.pattern.v,
                                     Join(<<",">>, [k \in DOMAIN value.v |-> value.v[k].v]))
                      THEN Raise("InputError: Invalid input")
                      ELSE value

\* Input.set_value_from_prompt(echo), the user typing `lines`:
\* [r |-> None or what is raised, self |-> the Input afterwards]
InputSetValueFromPrompt(i, lines) ==
    LET got == IF i.type = Str(T_StringList) THEN PromptForStringList(i, lines)
               ELSE IF lines = <<>> THEN Raise("EOFError")
               ELSE PromptForString(i, Head(lines))
    IN  IF i.type \notin {Str(T_String), Str(T_SecureString), Str(T_StringList)}
        THEN [r |-> None, self |-> i]
        ELSE IF IsRaise(got) THEN [r |-> got, self |-> i]
        ELSE IF i.type = Str(T_SecureString)
        THEN [r |-> None, self |-> [i EXCEPT !.decrypted_value = got]]
        ELSE [r |-> None, self |-> [i EXCEPT !.value = got]]

\* the lines Input.set_value_from_prompt reads of `lines`: one for a
\* String or a SecureString; for a StringList the first line, and unless
\* it gives the default or holds a comma, the lines up to the blank one
PromptLinesRead(i, lines) ==
    IF i.type \notin {Str(T_String), Str(T_SecureString), Str(T_StringList)}
       \/ lines = <<>>
    THEN 0
    ELSE IF \/ i.type # Str(T_StringList)
            \/ (Head(lines) = <<>> /\ Truthy(i.default))
            \/ Contains(Head(lines), <<",">>)
            \/ Head(lines) = <<>>
    THEN 1
    ELSE IF \E k \in 2..Len(lines) : lines[k] = <<>>
    THEN CHOOSE k \in 2..Len(lines) :
            lines[k] = <<>> /\ \A j \in 2..(k - 1) : lines[j] # <<>>
    ELSE Len(lines)

\* Input.load(obj), one entry of the .INPUT mapping: the Input, or the
\* ValueError for a SecureString with a Default
InputLoadOne(name, data0) ==
    LET data == IF IsStr(data0) THEN MkDict([Type |-> data0]) ELSE data0.v
    IN  IF Get(data, "Type") = Str(T_SecureString) /\ Has(data, "Default")
        THEN Raise("ValueError: Defaults are not allowed for SecureString")
        ELSE Input(name, Get(data, "Type"), Get(data, "Pattern"),
                   Get(data, "Description"), Get(data, "Default"))

\* Input.load(obj): [r |-> None or what is raised, inputs |-> the dict]
InputLoad(obj) ==
    IF \E n \in DOMAIN obj : IsRaise(InputLoadOne(n, obj[n]))
    THEN [r |-> Raise("ValueError: Defaults are not allowed for SecureString"),
          inputs |-> EmptyDict]
    ELSE [r |-> None, inputs |-> [n \in DOMAIN obj |-> InputLoadOne(n, obj[n])]]

\* the body of the loop of Input.merge_inputs without the adoption of the
\* pattern of the merged Input (lines 101-102)
MergeOneKeepPattern(inputs, name, input_to_merge) ==
    IF name \notin DOMAIN inputs
    THEN [r |-> None, inputs |-> Put(inputs, name, input_to_merge)]
    ELSE LET input == inputs[name]
         IN  IF input.type # input_to_merge.type
             THEN [r |-> Raise("TypeError: Conflicting input types"), inputs |-> inputs]
             ELSE IF /\ Truthy(input.pattern) /\ Truthy(input_to_merge.pattern)
                     /\ input.pattern # input_to_merge.pattern
             THEN [r |-> Raise("ValueError: Conflicting input patterns"), inputs |-> inputs]
             ELSE [r |-> None,
                   inputs |-> [inputs EXCEPT ![name] =
                     [input EXCEPT
                        !.description =
                            IF Truthy(input_to_merge.description) /\ ~Truthy(input.description)
                            THEN input_to_merge.description ELSE input.description]]]

\* the body of the loop of Input.merge_inputs for one name of
\* inputs_to_merge: [r |-> None or what is raised, inputs |-> inputs afterwards]
MergeOne(inputs, name, input_to_merge) ==
    IF name \notin DOMAIN inputs
    THEN [r |-> None, inputs |-> Put(inputs, name, input_to_merge)]
    ELSE LET input == inputs[name]
         IN  IF input.type # input_to_merge.type
             THEN [r |-> Raise("TypeError: Conflicting input types"), inputs |-> inputs]
             ELSE IF /\ Truthy(input.pattern) /\ Truthy(input_to_merge.pattern)
                     /\ input.pattern # input_to_merge.pattern
             THEN [r |-> Raise("ValueError: Conflicting input patterns"), inputs |-> inputs]
             ELSE [r |-> None,
                   inputs |-> [inputs EXCEPT ![name] =
                     [input EXCEPT
                        !.pattern =
                            IF Truthy(input_to_merge.pattern) /\ ~Truthy(input.pattern)
                            THEN input_to_merge.pattern ELSE input.pattern,
                        !.description =
                            IF Truthy(input_to_merge.description) /\ ~Truthy(input.description)
                            THEN input_to_merge.description ELSE input.description]]]

\* Input.merge_inputs(inputs, inputs_to_merge) over the names still to be
\* merged (a raise ends the loop)
RECURSIVE MergeNames(_, _, _)
MergeNames(inputs, inputs_to_merge, names) ==
    IF names = <<>> THEN [r |-> None, inputs |-> inputs]
    ELSE LET one == MergeOne(inputs, Head(names), inputs_to_merge[Head(names)])
         IN  IF IsRaise(one.r) THEN one
             ELSE MergeNames(one.inputs, inputs_to_merge, Tail(names))

\* Input.merge_inputs(inputs, inputs_to_merge)
MergeInputs(inputs, inputs_to_merge) ==
    MergeNames(inputs, inputs_to_merge, Sorted(DOMAIN inputs_to_merge))

\* RegionResolver / AccountResolver of Input.get_resolver: classes whose
\* get_value returns SSMClient.get_region() / SSMClient.get_account().
RegionResolver  == [t |-> "RegionResolver"]
AccountResolver == [t |-> "AccountResolver"]
N_Region  == <<"R", "e", "g", "i", "o", "n">>
N_Account == <<"A", "c", "c", "o", "u", "n", "t">>
\* what the session reports (SSMClient.get_region / get_account)
TheRegion  == <<"e", "u">>
TheAccount == <<"1", "2">>

\* binding.get_value(key_id=key_id) for whatever _VAR_VALUES holds
GetValue(b, key_id) ==
    CASE b.t = "RegionResolver"  -> [r |-> Str(TheRegion), self |-> b]
      [] b.t = "AccountResolver" -> [r |-> Str(TheAccount), self |-> b]
      [] OTHER                   -> InputGetValue(b, key_id)

\* is what was raised an InputError
IsInputError(r) ==
    r \in {Raise("InputError: Invalid input"), Raise("InputError: Input not given")}

\* the resolver of Input.get_resolver(inputs, prompt, echo) called with
\* name, the user typing `lines`:
\* [r |-> the binding or what is raised, inputs |-> inputs afterwards,
\*  lines |-> what is left to type]
Resolver(inputs, name, prompt, lines) ==
    IF name \notin DOMAIN inputs /\ name = N_Region
    THEN [r |-> RegionResolver, inputs |-> inputs, lines |-> lines]
    ELSE IF name \notin DOMAIN inputs /\ name = N_Account
    THEN [r |-> AccountResolver, inputs |-> inputs, lines |-> lines]
    ELSE IF name \notin DOMAIN inputs /\ ~prompt
    THEN [r |-> Raise("InputError: Input not given"), inputs |-> inputs, lines |-> lines]
    ELSE With(IF name \in DOMAIN inputs THEN inputs[name]
              ELSE Input(name, None, None, None, None), LAMBDA input :
           IF InputValueIsSet(input)
           THEN [r |-> input, inputs |-> Put(inputs, name, input), lines |-> lines]
           ELSE IF ~prompt
           THEN [r |-> Raise("InputError: Input not given"),
                 inputs |-> Put(inputs, name, input), lines |-> lines]
           ELSE With(InputSetValueFromPrompt(input, lines), LAMBDA set :
                  [r      |-> IF IsRaise(set.r) THEN set.r ELSE set.self,
                   inputs |-> Put(inputs, name, set.self),
                   lines  |-> SubSeq(lines, PromptLinesRead(input, lines) + 1,
                                     Len(lines))]))

\* VarString.resolve: the order in which the names are handed to the
\* resolver with the first of them left out
ResolveOrderSkipFirst(names) ==
    IF names = {} THEN <<>> ELSE Tail(Sorted(names))

\* VarString.resolve: the order in which the names are handed to the resolver
ResolveOrder(names) == Sorted(names)

\* VarString.resolve, the loop; st is [r |-> None or what was raised,
\* VV |-> _VAR_VALUES, inputs, lines]
RECURSIVE ResolveEach(_, _, _)
ResolveEach(names, st, prompt) ==
    IF names = <<>> \/ IsRaise(st.r) THEN st
    ELSE With(Resolver(st.inputs, Head(names), prompt, st.lines), LAMBDA b :
           IF IsRaise(b.r)
           THEN [st EXCEPT !.r = b.r, !.inputs = b.inputs, !.lines = b.lines]
           ELSE ResolveEach(Tail(names),
                            [r |-> None, VV |-> Put(st.VV, Head(names), b.r),
                             inputs |-> b.inputs, lines |-> b.lines],
                            prompt))

\* VarString.resolve(Input.get_resolver(inputs, prompt, echo))
VarStringResolve(names, VV, inputs, prompt, lines) ==
    ResolveEach(ResolveOrder(names),
                [r |-> None, VV |-> VV, inputs |-> inputs, lines |-> lines], prompt)

(***************************************************************************)
(* VarString.value                                                         *)
(***************************************************************************)

\* The loop of VarString.value over self.names, from the text value on:
\*     var_value = self._VAR_VALUES[name].get_value(key_id=key_id)
\*     value = pattern(name).sub(var_value, value)
\* VV is _VAR_VALUES; get_value may change the Input it is called on.
\* reads collects the names looked up in _VAR_VALUES.
RECURSIVE SubstituteIn(_, _, _, _)
SubstituteIn(value, names, key_id, VV) ==
    IF names = <<>> THEN [r |-> Str(value), VV |-> VV, reads |-> {}]
    ELSE IF Head(names) \notin DOMAIN VV
    THEN [r |-> Raise("KeyError"), VV |-> VV, reads |-> {Head(names)}]
    ELSE With(GetValue(VV[Head(names)], key_id), LAMBDA g :
           IF IsRaise(g.r) \/ ~IsStr(g.r)
           THEN [r     |-> IF IsRaise(g.r) THEN g.r ELSE Raise("TypeError"),
                 VV    |-> [VV EXCEPT ![Head(names)] = g.self],
                 reads |-> {Head(names)}]
           ELSE With(SubstituteIn(Sub(Head(names), g.r.v, value), Tail(names), key_id,
                                  [VV EXCEPT ![Head(names)] = g.self]),
                     LAMBDA rest : [rest EXCEPT !.reads = @ \cup {Head(names)}]))

RECURSIVE VarStringValue(_, _)
RECURSIVE Dump(_, _)

\* VarString.value of the object o: [r |-> the value or what is raised,
\* self |-> o afterwards (the cache), VV |-> _VAR_VALUES afterwards,
\* reads |-> the names looked up in _VAR_VALUES].
\* "if not self._value" recomputes when the cache is None or empty.
VarStringValue(o, VV) ==
    IF Truthy(o.value) THEN [r |-> o.value, self |-> o, VV |-> VV, reads |-> {}]
    ELSE IF o.names = <<>>
    THEN [r |-> Str(o.string), self |-> [o EXCEPT !.value = Str(o.string)],
          VV |-> VV, reads |-> {}]
    ELSE With(Dump(o.key_id, VV), LAMBDA k :
           IF IsRaise(k.r)
           THEN [r |-> k.r, self |-> o, VV |-> k.VV, reads |-> k.reads]
           ELSE With(SubstituteIn(o.string, o.names, k.r, k.VV), LAMBDA s :
                  [r     |-> s.r,
                   self  |-> IF IsStr(s.r) THEN [o EXCEPT !.value = s.r] ELSE o,
                   VV    |-> s.VV,
                   reads |-> k.reads \cup s.reads]))

\* VarString.dump(obj): obj.value for a VarString, obj itself otherwise
Dump(obj, VV) ==
    IF obj.t = "VarString" THEN VarStringValue(obj, VV)
    ELSE [r |-> obj, self |-> obj, VV |-> VV, reads |-> {}]

(***************************************************************************)
(* SSMParameter (parameters.py)                                            *)
(***************************************************************************)

\* the names a loaded field registers in VarString.NAMES
RECURSIVE NamesOf(_)
NamesOf(o) ==
    CASE o.t = "VarString" -> Range(o.names)
      [] o.t = "list"      -> UNION { NamesOf(o.v[i]) : i \in DOMAIN o.v }
      [] OTHER             -> {}

\* VarString.single_reference(s)
SingleReference(s) ==
    IF ~IsStr(s) THEN Raise("TypeError")
    ELSE IF FullMatchReference(s.v) THEN s
    ELSE IF FullMatchName(s.v) THEN Str(Ref(s.v))
    ELSE Raise("ValueError: not a valid single reference")

\* load_varstring(o) and load_varstring(o, key_id) called by position:
\* the identity when vars_in_name_only, VarString.load otherwise
LoadVarstring(vars_in_name_only, o, key_id) ==
    IF vars_in_name_only THEN o ELSE VarStringLoad(o, key_id)

\* load_varstring(o, key_id=key_id): the lambda used when vars_in_name_only
\* names its second parameter k, so the keyword call raises TypeError
LoadVarstringKw(vars_in_name_only, o, key_id) ==
    IF vars_in_name_only THEN Raise("TypeError: unexpected keyword argument")
    ELSE VarStringLoad(o, key_id)

\* SSMParameter.load, the cascade that infers the type of an entry with no
\* Type (lines 309-314); obj['Value'] raises KeyError when there is none
InferTypeCascade(obj) ==
    IF Has(obj, "KeyId") THEN Str(T_SecureString)
    ELSE IF ~Has(obj, "Value") THEN Raise("KeyError: Value")
    ELSE IF ~IsStr(obj["Value"]) THEN Str(T_StringList)
    ELSE Str(T_String)

\* SSMParameter.load, the type of the entry (lines 307-315): line 315
\* assigns the type again, whatever the cascade found
InferType(obj) ==
    IF Truthy(Get(obj, "Type")) THEN obj["Type"]
    ELSE IF IsRaise(InferTypeCascade(obj)) THEN InferTypeCascade(obj)
    ELSE IF Has(obj, "KeyId") THEN Str(T_SecureString) ELSE Str(T_String)

\* SSMParameter.load, the value of a SecureString entry (lines 321-328)
LoadSecureValue(obj, key_id, vars_in_name_only) ==
    IF ~Truthy(key_id) THEN Raise("ValueError: SecureString requires KeyId")
    ELSE IF Has(obj, "EncryptedValue")
    THEN LoadVarstringKw(vars_in_name_only, obj["EncryptedValue"], key_id)
    ELSE IF Has(obj, "Input")
    THEN LET ref == SingleReference(obj["Input"])
         IN  IF IsRaise(ref) THEN ref
             ELSE LoadVarstringKw(vars_in_name_only, ref, key_id)
    ELSE IF Has(obj, "Value")
    THEN Raise("ValueError: Value cannot be used with SecureString")
    ELSE None

\* SSMParameter.load, the value (lines 319-332)
LoadValue(obj, type, key_id, vars_in_name_only) ==
    IF type = Str(T_SecureString)
    THEN LoadSecureValue(obj, key_id, vars_in_name_only)
    ELSE IF IsList(Get(obj, "Value"))
    THEN List([i \in DOMAIN obj["Value"].v |->
                  LoadVarstring(vars_in_name_only, obj["Value"].v[i], None)])
    ELSE LoadVarstring(vars_in_name_only, Get(obj, "Value"), None)

\* SSMParameter.__init__: the object, or the ValueError of line 395
SSMParameter(name, type, value, allowed_pattern, description, key_id, overwrite, disable) ==
    IF \/ (Truthy(key_id) /\ ~(type = Str(T_SecureString)))
       \/ (type = Str(T_SecureString) /\ ~Truthy(key_id))
    THEN Raise("ValueError: Mismatched secure inputs")
    ELSE [t                  |-> "SSMParameter",
          name               |-> name,
          type               |-> type,
          value              |-> value,
          allowed_pattern    |-> allowed_pattern,
          description        |-> description,
          key_id             |-> key_id,
          overwrite          |-> overwrite,
          disable            |-> disable,
          version            |-> None,
          last_modified_date |-> None,
          last_modified_user |-> None]

\* SSMParameter.load(obj, vars_in_name_only):
\* [r |-> the parameter or what is raised,
\*  names |-> the names its VarStrings registered in VarString.NAMES]
SSMParameterLoad(obj, vars_in_name_only) ==
    LET name   == VarStringLoad(obj["Name"], None)
        type   == InferType(obj)
        key_id == LoadVarstring(vars_in_name_only, Get(obj, "KeyId"), None)
        value  == LoadValue(obj, type, key_id, vars_in_name_only)
        allowed_pattern ==
            LoadVarstring(vars_in_name_only, Get(obj, "AllowedPattern"), None)
        disable ==
            LoadVarstring(vars_in_name_only,
                          IF Has(obj, "Disable") THEN obj["Disable"]
                          ELSE Get(obj, "Disabled"), None)
        p == SSMParameter(name, type, value, allowed_pattern,
                          Get(obj, "Description"), key_id,
                          Get(obj, "Overwrite"), disable)
    IN  IF IsRaise(type) THEN [r |-> type, names |-> NamesOf(name)]
        ELSE IF IsRaise(value)
        THEN [r |-> value, names |-> NamesOf(name) \cup NamesOf(key_id)]
        ELSE [r |-> IF IsRaise(p) THEN p
                    ELSE [p EXCEPT
                            !.version = Get(obj, "Version"),
                            !.last_modified_date = Get(obj, "LastModifiedDate"),
                            !.last_modified_user = Get(obj, "LastModifiedUser")],
              names |-> NamesOf(name) \cup NamesOf(key_id) \cup NamesOf(value)
                        \cup NamesOf(allowed_pattern) \cup NamesOf(disable)]

\* what a property of SSMParameter gives when it dumps a field:
\* [r |-> the value or what is raised, VV |-> _VAR_VALUES afterwards,
\*  reads |-> the names looked up in _VAR_VALUES]
DumpField(o, VV) ==
    With(Dump(o, VV), LAMBDA d : [r |-> d.r, VV |-> d.VV, reads |-> d.reads])

\* the result b of a read made after the reads rd
AfterReads(rd, b) == [b EXCEPT !.reads = rd \cup @]

\* SSMParameter.name
ParamName(p, VV) == DumpField(p.name, VV)

\* SSMParameter.allowed_pattern
ParamAllowedPattern(p, VV) == DumpField(p.allowed_pattern, VV)

\* SSMParameter.key_id
ParamKeyId(p, VV) == DumpField(p.key_id, VV)

\* SSMParameter.disable that does not look at _disable
ParamDisableFalse(p, VV) == [r |-> Bool(FALSE), VV |-> VV, reads |-> {}]

\* SSMParameter.disable
ParamDisable(p, VV) ==
    IF p.disable = None THEN [r |-> Bool(FALSE), VV |-> VV, reads |-> {}]
    ELSE With(DumpField(p.disable, VV), LAMBDA d :
           IF IsRaise(d.r) THEN d ELSE [d EXCEPT !.r = Bool(Truthy(d.r))])

\* SSMParameter.overwrite; default is SSMParameter.OVERWRITE_DEFAULT
ParamOverwrite(p, default) ==
    IF p.overwrite # None THEN Bool(Truthy(p.overwrite)) ELSE Bool(default)

\* VarString.dump(v) for v in self._value, one after the other
RECURSIVE DumpEach(_, _)
DumpEach(values, VV) ==
    IF values = <<>> THEN [r |-> List(<<>>), VV |-> VV, reads |-> {}]
    ELSE With(DumpField(Head(values), VV), LAMBDA d :
           IF IsRaise(d.r) THEN d
           ELSE With(DumpEach(Tail(values), d.VV), LAMBDA rest :
                  IF IsRaise(rest.r) THEN AfterReads(d.reads, rest)
                  ELSE [r |-> List(<<d.r>> \o rest.r.v), VV |-> rest.VV,
                        reads |-> d.reads \cup rest.reads]))

\* ','.join(values)
JoinValues(values) ==
    IF \E i \in DOMAIN values : ~IsStr(values[i]) THEN Raise("TypeError")
    ELSE Str(Join(<<",">>, [i \in DOMAIN values |-> values[i].v]))

\* SSMParameter.value
ParamValue(p, VV) ==
    IF p.value = None
    THEN With(ParamDisable(p, VV), LAMBDA dis :
           IF IsRaise(dis.r) THEN dis
           ELSE IF dis.r.v THEN [dis EXCEPT !.r = None]
           ELSE With(ParamName(p, dis.VV), LAMBDA n :
                  [r |-> IF IsRaise(n.r) THEN n.r
                         ELSE Raise("ValueError: Value missing"),
                   VV |-> n.VV, reads |-> dis.reads \cup n.reads]))
    ELSE With(DumpField(p.value, VV), LAMBDA d :
           IF IsRaise(d.r) \/ IsStr(d.r) THEN d
           ELSE IF ~IsList(p.value) THEN [d EXCEPT !.r = Raise("TypeError")]
           ELSE With(DumpEach(p.value.v, d.VV), LAMBDA each :
                  IF IsRaise(each.r) THEN AfterReads(d.reads, each)
                  ELSE [r |-> JoinValues(each.r.v), VV |-> each.VV,
                        reads |-> d.reads \cup each.reads]))

\* the reads of name, value, allowed_pattern and key_id that dump and
\* batch_put make in this order: the four results, each from the
\* _VAR_VALUES the one before left
ParamReads(p, VV) ==
    With(ParamName(p, VV), LAMBDA n :
    With(ParamValue(p, n.VV), LAMBDA v :
    With(ParamAllowedPattern(p, v.VV), LAMBDA a :
    With(ParamKeyId(p, a.VV), LAMBDA k : <<n, v, a, k>>))))

\* the first of a sequence of results that is a raise, 0 when none is
FirstRaise(rs) ==
    IF \E i \in DOMAIN rs : IsRaise(rs[i].r)
    THEN CHOOSE i \in DOMAIN rs :
            IsRaise(rs[i].r) /\ \A j \in 1..(i - 1) : ~IsRaise(rs[j].r)
    ELSE 0

\* the data dump and batch_put build from the four reads rs of parameter p:
\* Name, Type and Value, and the optional fields that are set
ParamData(p, rs) ==
    [Name  |-> rs[1].r,
     Type  |-> p.type,
     Value |-> rs[2].r,
     AllowedPattern |-> IF Truthy(rs[3].r) THEN rs[3].r ELSE Absent,
     Description    |-> IF Truthy(p.description) THEN p.description ELSE Absent,
     KeyId          |-> IF Truthy(rs[4].r) THEN rs[4].r ELSE Absent]

\* SSMParameter.dump
ParamDump(p, VV) ==
    With(ParamReads(p, VV), LAMBDA rs :
    With(FirstRaise(rs), LAMBDA f :
      IF f # 0
      THEN [r |-> rs[f].r, VV |-> rs[f].VV,
            reads |-> UNION {rs[i].reads : i \in 1..f}]
      ELSE [r |-> Dict(MkDict(ParamData(p, rs))), VV |-> rs[4].VV,
            reads |-> UNION {rs[i].reads : i \in 1..4}]))

(***************************************************************************)
(* Parameter files (files.py)                                              *)
(***************************************************************************)
INPUT_KEY  == <<".", "I", "N", "P", "U", "T">>
COMMON_KEY == <<".", "C", "O", "M", "M", "O", "N">>
FLUSH_KEY  == <<".", "F", "L", "U", "S", "H">>

\* name.startswith('.')
StartsWithDot(name) == name # <<>> /\ name[1] = "."

\* d.update(e)
Update(d, e) ==
    [k \in DOMAIN d \cup DOMAIN e |-> IF k \in DOMAIN e THEN e[k] ELSE d[k]]

\* d without the key k (d.pop(k) leaves it)
Pop(d, k) == [x \in DOMAIN d \ {k} |-> d[x]]

\* parse_parameter_file, the mapping a string or a list stands for
Sugar(data) ==
    IF IsStr(data) THEN MkDict([Type |-> Str(T_String), Value |-> data])
    ELSE IF IsList(data) THEN MkDict([Type |-> Str(T_StringList), Value |-> data])
    ELSE data.v

\* parse_parameter_file, the param_data of the entry called name
ParamEntry(obj, name) ==
    Update(Update(MkDict([Name |-> Str(name)]),
                  IF COMMON_KEY \in DOMAIN obj THEN obj[COMMON_KEY].v ELSE EmptyDict),
           Sugar(obj[name]))

\* the keys of a document that name parameters, in the order of the
\* document (documents are taken to list their keys in sorted order)
ParamKeys(obj) == Sorted({n \in DOMAIN obj : ~StartsWithDot(n)})

\* parse_parameter_file, flush
ParseFlush(obj) ==
    IF FLUSH_KEY \notin DOMAIN obj THEN List(<<>>)
    ELSE IF IsStr(obj[FLUSH_KEY]) THEN List(<<obj[FLUSH_KEY]>>)
    ELSE obj[FLUSH_KEY]

\* parse_parameter_file, once Input.load gave inputs and the entries in the
\* order keys were loaded
ParseLoaded(inputs, keys, loaded, flush) ==
    With(FirstRaise(loaded), LAMBDA f :
      [r          |-> IF f # 0 THEN loaded[f].r ELSE None,
       inputs     |-> inputs,
       parameters |-> IF f # 0 THEN <<>>
                      ELSE [i \in DOMAIN keys |->
                              [name |-> keys[i], parameter |-> loaded[i].r]],
       flush      |-> flush,
       names      |-> UNION {loaded[i].names :
                               i \in 1..(IF f # 0 THEN f ELSE Len(keys))}])

\* parse_parameter_file(obj, vars_in_name_only):
\* [r |-> None or what is raised, inputs, parameters (name and parameter,
\*  in the order of the document), flush,
\*  names |-> the names registered in VarString.NAMES]
ParseParameterFile(obj, vars_in_name_only) ==
    With(InputLoad(IF INPUT_KEY \in DOMAIN obj THEN obj[INPUT_KEY].v ELSE EmptyDict),
         LAMBDA inputs :
      IF IsRaise(inputs.r)
      THEN [r |-> inputs.r, inputs |-> EmptyDict, parameters |-> <<>>,
            flush |-> List(<<>>), names |-> {}]
      ELSE ParseLoaded(inputs.inputs, ParamKeys(obj),
                       [i \in DOMAIN ParamKeys(obj) |->
                          SSMParameterLoad(ParamEntry(obj, ParamKeys(obj)[i]),
                                           vars_in_name_only)],
                       ParseFlush(obj)))

\* compile_parameter_file, the loop; st is [r |-> the data so far or what
\* was raised, VV, reads]
RECURSIVE CompileEach(_, _, _)
CompileEach(parameters, ignore_disabled, st) ==
    IF parameters = <<>> \/ IsRaise(st.r) THEN st
    ELSE With(ParamDisable(Head(parameters), st.VV), LAMBDA dis :
           IF IsRaise(dis.r) THEN AfterReads(st.reads, dis)
           ELSE IF dis.r.v /\ ignore_disabled
           THEN CompileEach(Tail(parameters), ignore_disabled,
                            [st EXCEPT !.VV = dis.VV, !.reads = @ \cup dis.reads])
           ELSE With(ParamDump(Head(parameters), dis.VV), LAMBDA data :
                  IF IsRaise(data.r) THEN AfterReads(st.reads \cup dis.reads, data)
                  ELSE CompileEach(Tail(parameters), ignore_disabled,
                         [r  |-> Dict(Put(st.r.v, data.r.v["Name"].v,
                                          Dict(Pop(data.r.v, "Name")))),
                          VV |-> data.VV,
                          reads |-> st.reads \cup dis.reads \cup data.reads])))

\* compile_parameter_file(parameters, flush, ignore_disabled)
CompileParameterFile(parameters, flush, ignore_disabled, VV) ==
    CompileEach(parameters, ignore_disabled,
                [r  |-> Dict(IF Truthy(flush) THEN Put(EmptyDict, FLUSH_KEY, flush)
                             ELSE EmptyDict),
                 VV |-> VV, reads |-> {}])

(***************************************************************************)
(* SSMClient.batch_put (parameters.py)                                     *)
(***************************************************************************)
\* the chunk size handed to _batch by batch_put
BatchSize == 10

Min(a, b) == IF a < b THEN a ELSE b

\* _batch(iterable, n), from the 0-based index ndx on
RECURSIVE BatchFrom(_, _, _)
BatchFrom(iterable, n, ndx) ==
    IF ndx >= Len(iterable) THEN <<>>
    ELSE <<SubSeq(iterable, ndx + 1, Min(ndx + n, Len(iterable)))>>
         \o BatchFrom(iterable, n, ndx + n)

\* _batch(iterable, n)
Batch(iterable, n) == BatchFrom(iterable, n, 0)

\* batch_put, the put of one enabled parameter.  st is
\* [r |-> None or what was raised, VV, reads, puts |-> the put_parameter
\* calls made so far]; the remote call itself is taken to succeed.
PutParameter(parameter, st, default) ==
    With(ParamReads(parameter, st.VV), LAMBDA rs :
    With(FirstRaise(rs), LAMBDA f :
      IF f # 0
      THEN [st EXCEPT !.r = rs[f].r, !.VV = rs[f].VV,
                      !.reads = @ \cup UNION {rs[i].reads : i \in 1..f}]
      ELSE [st EXCEPT
              !.VV = rs[4].VV,
              !.reads = @ \cup UNION {rs[i].reads : i \in 1..4},
              !.puts = Append(@, MkDict(
                  [x \in DOMAIN ParamData(parameter, rs) \cup {"Overwrite"} |->
                      IF x # "Overwrite" THEN ParamData(parameter, rs)[x]
                      ELSE IF ParamOverwrite(parameter, default).v
                      THEN Bool(TRUE) ELSE Absent]))]))

\* batch_put, the body of the inner loop for one parameter
PutOne(parameter, st, default) ==
    IF IsRaise(st.r) THEN st
    ELSE With(ParamDisable(parameter, st.VV), LAMBDA dis :
           IF IsRaise(dis.r)
           THEN [st EXCEPT !.r = dis.r, !.VV = dis.VV, !.reads = @ \cup dis.reads]
           ELSE IF dis.r.v
           THEN [st EXCEPT !.VV = dis.VV, !.reads = @ \cup dis.reads]
           ELSE PutParameter(parameter,
                             [st EXCEPT !.VV = dis.VV, !.reads = @ \cup dis.reads],
                             default))

\* batch_put, the inner loop: "for parameter in args"
RECURSIVE PutEach(_, _, _)
PutEach(args, st, default) ==
    IF args = <<>> THEN st
    ELSE With(PutOne(Head(args), st, default),
              LAMBDA s : PutEach(Tail(args), s, default))

\* batch_put, the outer loop: "for parameters in _batch(args, 10)"
RECURSIVE PutChunks(_, _, _, _)
PutChunks(chunks, args, st, default) ==
    IF chunks = <<>> THEN st
    ELSE With(PutEach(args, st, default),
              LAMBDA s : PutChunks(Tail(chunks), args, s, default))

\* SSMClient.batch_put(*args)
BatchPut(args, VV, default) ==
    PutChunks(Batch(args, BatchSize), args,
              [r |-> None, VV |-> VV, reads |-> {}, puts |-> <<>>], default)

(***************************************************************************)
(* The command line (cli.py)                                               *)
(***************************************************************************)
\* load_inputs_from_args, one of its loops: an Input of the type for each
\* (name, value) pair, its value set with set_value(value, encrypted)
RECURSIVE InputsFromPairs(_, _, _, _)
InputsFromPairs(inputs, pairs, type, encrypted) ==
    IF pairs = <<>> THEN inputs
    ELSE InputsFromPairs(
            Put(inputs, Head(pairs)[1],
                InputSetValue(Input(Head(pairs)[1], type, None, None, None),
                              Str(Head(pairs)[2]), encrypted)),
            Tail(pairs), type, encrypted)

\* load_inputs_from_args(args): [r |-> None or what is raised, inputs].
\* args.secure_input is an AttributeError when the parser has no
\* --secure-input (add_input_args with secure=False).
LoadInputsFromArgs(args) ==
    IF "secure_input" \notin DOMAIN args
    THEN [r |-> Raise("AttributeError: secure_input"),
          inputs |-> InputsFromPairs(EmptyDict, args.input, Str(T_String), None)]
    ELSE [r |-> None,
          inputs |-> InputsFromPairs(
                        InputsFromPairs(EmptyDict, args.input, Str(T_String), None),
                        args.secure_input, Str(T_SecureString), Bool(TRUE))]

\* parameters.update(new) on the ordered dict parameters: the parameter of
\* a name already there is replaced in place, a new name is appended
RECURSIVE UpdateParameters(_, _)
UpdateParameters(parameters, new) ==
    IF new = <<>> THEN parameters
    ELSE UpdateParameters(
            IF \E i \in DOMAIN parameters : parameters[i].name = Head(new).name
            THEN [i \in DOMAIN parameters |->
                    IF parameters[i].name = Head(new).name THEN Head(new)
                    ELSE parameters[i]]
            ELSE Append(parameters, Head(new)),
            Tail(new))

\* load_parameter_files, the body of the loop for one file once parsed
LoadParsedFile(st, data) ==
    IF IsRaise(data.r) THEN [st EXCEPT !.r = data.r, !.names = @ \cup data.names]
    ELSE With(MergeInputs(st.inputs, data.inputs), LAMBDA m :
           [r          |-> m.r,
            inputs     |-> m.inputs,
            parameters |-> IF IsRaise(m.r) THEN st.parameters
                           ELSE UpdateParameters(st.parameters, data.parameters),
            flush      |-> IF IsRaise(m.r) THEN st.flush ELSE st.flush \o data.flush.v,
            names      |-> st.names \cup data.names])

\* load_parameter_files, the loop over args.parameter_file
RECURSIVE LoadEachFile(_, _)
LoadEachFile(files, st) ==
    IF files = <<>> \/ IsRaise(st.r) THEN st
    ELSE With(LoadParsedFile(st, ParseParameterFile(Head(files), FALSE)),
              LAMBDA s : LoadEachFile(Tail(files), s))

\* load_parameter_files(args, inputs): [r |-> None or what is raised,
\* inputs, parameters, flush, names |-> the names registered meanwhile]
LoadParameterFiles(args, inputs) ==
    LoadEachFile(args.parameter_file,
                 [r |-> None, inputs |-> inputs, parameters |-> <<>>,
                  flush |-> <<>>, names |-> {}])

\* process_inputs without its except clause: the InputError is dropped
\* and the run goes on
ProcessInputsNoExit(names, VV, inputs, prompt, lines) ==
    With(VarStringResolve(names, VV, inputs, prompt, lines), LAMBDA res :
      IF IsInputError(res.r) THEN [res EXCEPT !.r = None] ELSE res)

\* process_inputs(inputs, prompt, echo): VarString.resolve with the
\* resolver of the inputs; an InputError becomes sys.exit(1)
ProcessInputs(names, VV, inputs, prompt, lines) ==
    With(VarStringResolve(names, VV, inputs, prompt, lines), LAMBDA res :
      IF IsInputError(res.r) THEN [res EXCEPT !.r = Raise("SystemExit: 1")] ELSE res)

\* flush(paths): the SSMClient.delete_path calls
Flush(paths) == [i \in DOMAIN paths |-> [op |-> "delete_path", path |-> paths[i]]]

\* the parameters of the ordered dict (six.itervalues)
IterValues(parameters) == [i \in DOMAIN parameters |-> parameters[i].parameter]

\* delete_main from load_parameter_files on:
\* [r |-> None or what ends the run, calls |-> what the store received]
DeleteRest(args, inputs, names, VV, lines) ==
    With(LoadParameterFiles(args, inputs), LAMBDA lf :
      IF IsRaise(lf.r) THEN [r |-> lf.r, calls |-> <<>>]
      ELSE With(ProcessInputs(names \cup lf.names, VV, lf.inputs, args.prompt, lines),
                LAMBDA res :
             IF IsRaise(res.r) THEN [r |-> res.r, calls |-> <<>>]
             ELSE [r |-> None,
                   calls |-> Flush(lf.flush) \o
                             <<[op |-> "delete",
                                names |-> [i \in DOMAIN lf.parameters |->
                                   ParamName(lf.parameters[i].parameter, res.VV).r]]>>]))

(***************************************************************************)
(* SpecVar: one VarString, constructed, resolved and read                  *)
(***************************************************************************)
MaxPieces == 2

VsPieces == { Ref(<<"A">>), Ref(<<"B">>), <<"x">>, <<"/">> }
VsTemplates ==
    UNION { { Concat(ps) : ps \in [1..n -> VsPieces] } : n \in 0..MaxPieces }
VsValues == { <<"x">>, <<>>, Ref(<<"A">>), Ref(<<"B">>), <<"(">>, <<"$">> }

\* VarString(s, None): the constructor registers the names of s
VsConstruct ==
    /\ vs = None
    /\ \E s \in VsTemplates :
          /\ vs' = VarString(s, None)
          /\ NAMES' = NAMES \cup Range(vs'.names)
    /\ UNCHANGED <<VAR_VALUES, vsOut>>
    /\ UNCHANGED notVar

\* VarString.resolve(resolver) with a resolver that binds every name to a
\* String Input whose value was set with set_value (as the --input
\* arguments are, cli.py load_inputs_from_args)
VsResolve ==
    /\ vs # None
    /\ DOMAIN VAR_VALUES = {}
    /\ NAMES # {}
    /\ \E vals \in [NAMES -> VsValues] :
          VAR_VALUES' =
              [n \in NAMES |->
                  InputSetValue(Input(n, Str(T_String), None, None, None),
                                Str(vals[n]), None)]
    /\ UNCHANGED <<NAMES, vs, vsOut>>
    /\ UNCHANGED notVar

\* a read of vs.value
VsValue ==
    /\ vs # None
    /\ LET v == VarStringValue(vs, VAR_VALUES)
       IN  /\ vsOut' = v.r
           /\ vs' = v.self
           /\ VAR_VALUES' = v.VV
    /\ UNCHANGED NAMES
    /\ UNCHANGED notVar

(***************************************************************************)
(* SpecLoad: one parameter built by SSMParameter.load or the constructor   *)
(***************************************************************************)
S_p    == <<"/", "p">>
S_v    == <<"v">>
S_k    == <<"k">>
S_c    == <<"c">>
S_Foo  == <<"F", "o", "o">>

LdEntries ==
    { MkDict([Name |-> Str(S_p), Type |-> ty, KeyId |-> k, Value |-> v,
              EncryptedValue |-> ev, Input |-> in, Disable |-> d]) :
        ty \in {Absent, Str(T_String), Str(T_StringList), Str(T_SecureString)},
        k  \in {Absent, None, Str(<<>>), Str(S_k)},
        v  \in {Absent, Str(S_v), Str(Ref(S_Foo)), List(<<Str(<<"a">>), Str(<<"b">>)>>)},
        ev \in {Absent, Str(S_c)},
        in \in {Absent, Str(S_Foo), Str(Ref(S_Foo)), Str(<<"a", "/", "b">>)},
        d  \in {Absent, Bool(TRUE)} }

\* SSMParameter.load(obj, vars_in_name_only) in a fresh process
LdLoad ==
    /\ ldOut = None
    /\ \E obj \in LdEntries, mode \in BOOLEAN :
          LET res == SSMParameterLoad(obj, mode)
          IN  /\ ldObj' = obj
              /\ ldMode' = mode
              /\ ldOut' = res.r
              /\ NAMES' = NAMES \cup res.names
    /\ UNCHANGED VAR_VALUES
    /\ UNCHANGED notLoad

\* SSMParameter(name, type, value, key_id=...) called directly
LdConstruct ==
    /\ ldOut = None
    /\ \E ty \in {Str(T_String), Str(T_StringList), Str(T_SecureString)},
          k \in {None, Str(<<>>), Str(S_k), VarString(<<>>, None), VarString(S_k, None)},
          v \in {None, Str(S_v)} :
          /\ ldObj' = [t |-> "args", type |-> ty, key_id |-> k, value |-> v]
          /\ ldOut' = SSMParameter(Str(S_p), ty, v, None, None, k, None, None)
    /\ UNCHANGED <<ldMode, NAMES, VAR_VALUES>>
    /\ UNCHANGED notLoad

(***************************************************************************)
(* SpecInput: one Input, set, prompted and read                            *)
(***************************************************************************)
MaxLines == 3

\* the secret of the run and a second key
S_secret == <<"s">>
S_k2     == <<"j">>

InTypes    == {Str(T_String), Str(T_SecureString), Str(T_StringList)}
InPatterns == {None, Str(<<"a">>)}
InDefaults == {None, Str(<<"d">>)}
\* what set_value is handed: the secret, or its ciphertext under key k
InValues   == {Str(S_secret), Str(Encrypt(S_secret, S_k))}
\* what the user may type at a prompt
InLineSet  == {<<>>, S_secret, <<"a">>, <<"a", ",", "b">>}
InTyped    == UNION { [1..n -> InLineSet] : n \in 1..MaxLines }
InKeyIds   == {None, Str(S_k), Str(S_k2)}

\* Input(name, type, pattern=..., default=...)
InNew ==
    /\ inp = None
    /\ \E ty \in InTypes, pat \in InPatterns, def \in InDefaults :
          inp' = Input(S_Foo, ty, pat, None, def)
    /\ UNCHANGED <<inpCall, inpSetArgs>>
    /\ UNCHANGED notInput

\* input.set_value(value, encrypted)
InSetValue ==
    /\ inp # None
    /\ \E value \in InValues, encrypted \in {None, Bool(TRUE), Bool(FALSE)} :
          /\ inp' = InputSetValue(inp, value, encrypted)
          /\ inpCall' = [call |-> "set_value", arg |-> encrypted, r |-> None]
          /\ inpSetArgs' = inpSetArgs \cup {encrypted}
    /\ UNCHANGED notInput

\* input.set_value_from_prompt(echo)
InSetValueFromPrompt ==
    /\ inp # None
    /\ \E lines \in InTyped :
          LET res == InputSetValueFromPrompt(inp, lines)
          IN  /\ inp' = res.self
              /\ inpCall' = [call |-> "set_value_from_prompt", arg |-> lines, r |-> res.r]
    /\ UNCHANGED inpSetArgs
    /\ UNCHANGED notInput

\* input.get_value(key_id)
InGetValue ==
    /\ inp # None
    /\ \E key_id \in InKeyIds :
          LET res == InputGetValue(inp, key_id)
          IN  /\ inp' = res.self
              /\ inpCall' = [call |-> "get_value", arg |-> key_id, r |-> res.r]
    /\ UNCHANGED inpSetArgs
    /\ UNCHANGED notInput

(***************************************************************************)
(* SpecMerge: the .INPUT sections of two documents, merged both ways       *)
(***************************************************************************)
S_Bar == <<"B", "a", "r">>

\* what a document may say about one Input: its type alone, or a mapping
MgData ==
    {Str(T_String)} \cup
    { Dict(MkDict([Type |-> ty, Pattern |-> pat, Description |-> desc, Default |-> def])) :
        ty   \in {Absent, Str(T_String), Str(T_SecureString), Str(T_StringList)},
        pat  \in {Absent, Str(<<>>), Str(<<"a">>), Str(<<"b">>)},
        desc \in {Absent, Str(<<"x">>)},
        def  \in {Absent, Str(<<"d">>)} }

\* the .INPUT sections: Foo described or not, Bar declared or not
MgSections ==
    { MkDict([foo |-> f, bar |-> b]) :
        f \in MgData \cup {Absent}, b \in {Absent, Str(T_String)} }

\* the dict of an .INPUT section, keyed by the names of its Inputs
MgSectionDict(sec) ==
    [n \in {S_Foo : x \in DOMAIN sec \cap {"foo"}} \cup {S_Bar : x \in DOMAIN sec \cap {"bar"}}
        |-> IF n = S_Foo THEN sec["foo"] ELSE sec["bar"]]

\* Input.load of the .INPUT sections of two documents
MgLoad ==
    /\ ~mrgLoaded
    /\ mrgLoaded' = TRUE
    /\ \E sa \in MgSections, sb \in MgSections :
          /\ ~IsRaise(InputLoad(MgSectionDict(sa)).r)
          /\ ~IsRaise(InputLoad(MgSectionDict(sb)).r)
          /\ mrgA' = InputLoad(MgSectionDict(sa)).inputs
          /\ mrgB' = InputLoad(MgSectionDict(sb)).inputs
    /\ UNCHANGED <<mrgAB, mrgBA>>
    /\ UNCHANGED notMerge

\* Input.merge_inputs(A, B) on the two dicts
MgMerge ==
    /\ mrgLoaded
    /\ mrgAB = None
    /\ mrgAB' = MergeInputs(mrgA, mrgB)
    /\ UNCHANGED <<mrgLoaded, mrgA, mrgB, mrgBA>>
    /\ UNCHANGED notMerge

\* Input.merge_inputs(B, A) on the same two dicts, as loaded
MgMergeReverse ==
    /\ mrgLoaded
    /\ mrgBA = None
    /\ mrgBA' = MergeInputs(mrgB, mrgA)
    /\ UNCHANGED <<mrgLoaded, mrgA, mrgB, mrgAB>>
    /\ UNCHANGED notMerge

(***************************************************************************)
(* SpecDoc: one document, parsed and compiled                              *)
(***************************************************************************)
S_q == <<"/", "q">>
S_ab == List(<<Str(<<"a">>), Str(<<"b">>)>>)
\* a top-level key that starts with a dot and is not a reserved one
S_dotx == <<".", "x">>

\* what a document may say about a parameter: a string, a list, a mapping
DcEntries ==
    {Str(S_v), S_ab} \cup
    { Dict(MkDict([Type |-> ty, Value |-> v, KeyId |-> k, EncryptedValue |-> ev,
                   AllowedPattern |-> ap, Description |-> d])) :
        ty \in {Absent, Str(T_String), Str(T_StringList), Str(T_SecureString)},
        v  \in {Absent, Str(S_v), S_ab},
        k  \in {Absent, Str(S_k)},
        ev \in {Absent, Str(S_c)},
        ap \in {Absent, Str(S_v)},
        d  \in {Absent, Str(<<"x">>)} }

\* the sections of a document
DcSections ==
    { MkDict([p |-> p, q |-> q, x |-> x, common |-> c, flush |-> f, input |-> i]) :
        p \in DcEntries \cup {Absent},
        q \in {Absent, Str(S_v)},
        x \in {Absent, Str(S_v)},
        c \in {Absent, Dict(MkDict([Description |-> Str(<<"y">>)])),
               Dict(MkDict([Type |-> Str(T_SecureString), KeyId |-> Str(S_k)]))},
        f \in {Absent, Str(<<"/">>), List(<<Str(<<"/">>)>>)},
        i \in {Absent, Dict(Put(EmptyDict, S_Foo, Str(T_String)))} }

DcKey == [p |-> S_p, q |-> S_q, x |-> S_dotx, common |-> COMMON_KEY, flush |-> FLUSH_KEY,
          input |-> INPUT_KEY]

\* the document, keyed as yaml.safe_load keys it
DcDoc(sec) ==
    [n \in {DcKey[f] : f \in DOMAIN sec} |->
        sec[CHOOSE f \in DOMAIN sec : DcKey[f] = n]]

\* parse_parameter_file(document)
DocParse ==
    /\ docData = None
    /\ \E sec \in DcSections :
          /\ docObj' = Dict(DcDoc(sec))
          /\ docData' = ParseParameterFile(DcDoc(sec), FALSE)
          /\ NAMES' = NAMES \cup docData'.names
    /\ UNCHANGED <<VAR_VALUES, docOut>>
    /\ UNCHANGED notDoc

\* compile_parameter_file(the parsed parameters, the parsed flush paths)
DocCompile ==
    /\ docData # None
    /\ ~IsRaise(docData.r)
    /\ docOut = None
    /\ \E c \in {CompileParameterFile(
                    [i \in DOMAIN docData.parameters |->
                        docData.parameters[i].parameter],
                    docData.flush, FALSE, VAR_VALUES)} :
          /\ docOut' = [r |-> c.r]
          /\ VAR_VALUES' = c.VV
    /\ UNCHANGED <<NAMES, docObj, docData>>
    /\ UNCHANGED notDoc

(***************************************************************************)
(* SpecBatch: parameters handed to SSMClient.batch_put                     *)
(***************************************************************************)
MaxParams == 11

\* the name of the i-th parameter: /a, /b, ...
BpName(i) == <<"/", Ascii[Code("a") - 1 + i]>>

\* the entries the parameters are loaded from: enabled or disabled
BpEntries(i) ==
    { MkDict([Name |-> Str(BpName(i)), Value |-> Str(S_v), Disable |-> d]) :
        d \in {Absent, Bool(TRUE)} }

\* one more parameter is loaded and added to the arguments
BpAdd ==
    /\ bpOut = None
    /\ Len(bpArgs) < MaxParams
    /\ \E e \in BpEntries(Len(bpArgs) + 1) :
          LET l == SSMParameterLoad(e, FALSE)
          IN  /\ ~IsRaise(l.r)
              /\ bpArgs' = Append(bpArgs, l.r)
              /\ NAMES' = NAMES \cup l.names
    /\ UNCHANGED <<VAR_VALUES, bpOut>>
    /\ UNCHANGED notBatch

\* SSMClient.batch_put(*bpArgs)
BpBatchPut ==
    /\ bpOut = None
    /\ \E b \in {BatchPut(bpArgs, VAR_VALUES, FALSE)} :
          /\ bpOut' = [r |-> b.r, puts |-> b.puts]
          /\ VAR_VALUES' = b.VV
    /\ UNCHANGED <<NAMES, bpArgs>>
    /\ UNCHANGED notBatch

(***************************************************************************)
(* Spec: a push run step by step, a delete run                             *)
(***************************************************************************)
MaxFiles == 2

S_s   == <<"/", "s">>
S_bar == <<"b", "a", "r">>

\* the .INPUT section that declares the Input name with what data says
RunInput(name, data) == Dict(Put(EmptyDict, name, data))

\* the document with the entries v1 under k1 and v2 under k2
RunDoc(k1, v1, k2, v2) == Put(Put(EmptyDict, k1, v1), k2, v2)

\* the parameter files of the runs
RunDocs ==
    { RunDoc(S_p, Str(Ref(S_Foo)), INPUT_KEY, RunInput(S_Foo, Str(T_String))),
      RunDoc(S_p, Str(Ref(N_Region)), S_q, Str(<<"/">> \o Ref(N_Account))),
      RunDoc(S_p, Str(Ref(N_Region)), INPUT_KEY, RunInput(N_Region, Str(T_String))),
      RunDoc(S_p, Str(Ref(S_Foo)), INPUT_KEY,
             RunInput(S_Foo, Dict(MkDict([Type |-> Str(T_String),
                                          Pattern |-> Str(<<"z">>)])))),
      RunDoc(S_q, Str(S_v), FLUSH_KEY, Str(<<"/">>)),
      RunDoc(S_q, Dict(MkDict([Value |-> Str(Ref(S_Foo)), Disable |-> Bool(TRUE)])),
             S_p, Str(S_v)),
      RunDoc(S_s, Dict(MkDict([Type |-> Str(T_SecureString), KeyId |-> Str(S_k),
                               Input |-> Str(S_Foo)])),
             INPUT_KEY, RunInput(S_Foo, Str(T_SecureString))),
      RunDoc(S_q, Dict(MkDict([Type |-> Str(T_String), Disable |-> Bool(TRUE)])),
             S_p, Str(S_v)),
      RunDoc(S_p, Str(S_v), S_q, Dict(MkDict([Type |-> Str(T_String)]))) }

RunFiles == UNION { [1..n -> RunDocs] : n \in 1..MaxFiles }

\* the --input and --secure-input (name, value) pairs of the runs
RunInputPairs == { <<>>, << <<S_Foo, S_bar>> >>, << <<N_Region, <<"x", "x">> >> >> }
RunSecurePairs == { <<>>, << <<S_Foo, Encrypt(S_secret, S_k)>> >> }

\* what the user types when prompted
RunLines == { <<>>, <<S_bar, <<"u", "s">> >> }

\* the arguments push_main parses
PushArgs ==
    { [input |-> i, secure_input |-> s, parameter_file |-> f, prompt |-> pr,
       echo |-> None, dry_run |-> d, delete |-> x, overwrite |-> o] :
        i \in RunInputPairs, s \in RunSecurePairs, f \in RunFiles,
        pr \in BOOLEAN, d \in BOOLEAN, x \in BOOLEAN, o \in BOOLEAN }

\* the arguments delete_main parses (its parser has no --secure-input)
DeleteArgs ==
    { [input |-> i, parameter_file |-> f, prompt |-> pr, echo |-> None] :
        i \in RunInputPairs, f \in RunFiles, pr \in BOOLEAN }

\* the run ends with what was raised
RunFails(r) == pc' = "failed" /\ runErr' = r

\* push_main: parser.parse_args
PushParseArgs ==
    /\ pc = "start"
    /\ \E a \in PushArgs, lines \in RunLines :
          /\ runArgs' = a
          /\ runStdin' = lines
    /\ runCommand' = Str(<<"p", "u", "s", "h">>)
    /\ pc' = "parsed"
    /\ UNCHANGED <<runInputs, runParameters, runFlush, runCalls, runPrinted,
                   runErr, runResolved, runLookups>>
    /\ UNCHANGED regVars
    /\ UNCHANGED notRun

\* push_main: inputs = load_inputs_from_args(args)
PushLoadInputs ==
    /\ pc = "parsed"
    /\ \E li \in {LoadInputsFromArgs(runArgs)} :
          /\ runInputs' = li.inputs
          /\ IF IsRaise(li.r) THEN RunFails(li.r)
             ELSE pc' = "inputs" /\ runErr' = runErr
    /\ UNCHANGED <<runCommand, runArgs, runStdin, runParameters, runFlush, runCalls,
                   runPrinted, runResolved, runLookups>>
    /\ UNCHANGED regVars
    /\ UNCHANGED notRun

\* push_main: inputs, parameters, flush_paths = load_parameter_files(args, inputs)
PushLoadParameterFiles ==
    /\ pc = "inputs"
    /\ \E lf \in {LoadParameterFiles(runArgs, runInputs)} :
          /\ NAMES' = NAMES \cup lf.names
          /\ runInputs' = lf.inputs
          /\ runParameters' = lf.parameters
          /\ runFlush' = lf.flush
          /\ IF IsRaise(lf.r) THEN RunFails(lf.r)
             ELSE pc' = "loaded" /\ runErr' = runErr
    /\ UNCHANGED <<runCommand, runArgs, runStdin, runCalls, runPrinted,
                   runResolved, runLookups>>
    /\ UNCHANGED VAR_VALUES
    /\ UNCHANGED notRun

\* push_main: process_inputs(inputs, prompt=args.prompt, echo=args.echo)
PushProcessInputs ==
    /\ pc = "loaded"
    /\ \E res \in {ProcessInputs(NAMES, VAR_VALUES, runInputs, runArgs.prompt,
                                 runStdin)} :
          /\ VAR_VALUES' = res.VV
          /\ runInputs' = res.inputs
          /\ runStdin' = res.lines
          /\ runResolved' = ~IsRaise(res.r)
          /\ IF IsRaise(res.r) THEN RunFails(res.r)
             ELSE pc' = "resolved" /\ runErr' = runErr
    /\ UNCHANGED <<runCommand, runArgs, runParameters, runFlush, runCalls,
                   runPrinted, runLookups>>
    /\ UNCHANGED NAMES
    /\ UNCHANGED notRun

\* push_main with --dry-run: the compiled document is printed
PushDryRun ==
    /\ pc = "resolved"
    /\ runArgs.dry_run
    /\ \E c \in {CompileParameterFile(IterValues(runParameters),
                    IF runArgs.delete THEN List(runFlush) ELSE None,
                    TRUE, VAR_VALUES)} :
          /\ VAR_VALUES' = c.VV
          /\ runLookups' = runLookups \cup c.reads
          /\ IF IsRaise(c.r) THEN RunFails(c.r) /\ runPrinted' = runPrinted
             ELSE pc' = "done" /\ runErr' = runErr /\ runPrinted' = c.r
    /\ UNCHANGED <<runCommand, runArgs, runStdin, runInputs, runParameters,
                   runFlush, runCalls, runResolved>>
    /\ UNCHANGED NAMES
    /\ UNCHANGED notRun

\* push_main with lines 125-127 moved below line 131: batch_put first,
\* flush(flush_paths) after it
PushFlushAfterPut ==
    /\ pc = "resolved"
    /\ ~runArgs.dry_run
    /\ runArgs.delete
    /\ \E b \in {BatchPut(IterValues(runParameters), VAR_VALUES, runArgs.overwrite)} :
          /\ VAR_VALUES' = b.VV
          /\ runLookups' = runLookups \cup b.reads
          /\ IF IsRaise(b.r)
             THEN /\ RunFails(b.r)
                  /\ runCalls' = runCalls \o
                        [i \in DOMAIN b.puts |-> [op |-> "put_parameter", kwargs |-> b.puts[i]]]
             ELSE /\ pc' = "done" /\ runErr' = runErr
                  /\ runCalls' = (runCalls \o
                        [i \in DOMAIN b.puts |-> [op |-> "put_parameter", kwargs |-> b.puts[i]]])
                        \o Flush(runFlush)
    /\ UNCHANGED <<runCommand, runArgs, runStdin, runInputs, runParameters,
                   runFlush, runPrinted, runResolved>>
    /\ UNCHANGED NAMES
    /\ UNCHANGED notRun

\* push_main with --delete: flush(flush_paths)
PushFlush ==
    /\ pc = "resolved"
    /\ ~runArgs.dry_run
    /\ runArgs.delete
    /\ runCalls' = runCalls \o Flush(runFlush)
    /\ pc' = "flushed"
    /\ UNCHANGED <<runCommand, runArgs, runStdin, runInputs, runParameters,
                   runFlush, runPrinted, runErr, runResolved, runLookups>>
    /\ UNCHANGED regVars
    /\ UNCHANGED notRun

\* push_main: SSMParameter.OVERWRITE_DEFAULT = args.overwrite;
\* SSMClient.batch_put(*parameters.values())
PushBatchPut ==
    /\ \/ pc = "flushed"
       \/ pc = "resolved" /\ ~runArgs.dry_run /\ ~runArgs.delete
    /\ \E b \in {BatchPut(IterValues(runParameters), VAR_VALUES, runArgs.overwrite)} :
          /\ VAR_VALUES' = b.VV
          /\ runLookups' = runLookups \cup b.reads
          /\ runCalls' = runCalls \o
                [i \in DOMAIN b.puts |-> [op |-> "put_parameter", kwargs |-> b.puts[i]]]
          /\ IF IsRaise(b.r) THEN RunFails(b.r)
             ELSE pc' = "done" /\ runErr' = runErr
    /\ UNCHANGED <<runCommand, runArgs, runStdin, runInputs, runParameters,
                   runFlush, runPrinted, runResolved>>
    /\ UNCHANGED NAMES
    /\ UNCHANGED notRun

\* delete_main: parse_args, load_inputs_from_args and what follows it
DeleteMain ==
    /\ pc = "start"
    /\ \E a \in DeleteArgs, lines \in RunLines :
          /\ runArgs' = a
          /\ runStdin' = lines
          /\ \E li \in {LoadInputsFromArgs(a)} :
                /\ runInputs' = li.inputs
                /\ IF IsRaise(li.r)
                   THEN RunFails(li.r) /\ runCalls' = runCalls
                   ELSE \E d \in {DeleteRest(a, li.inputs, NAMES, VAR_VALUES, lines)} :
                           /\ runCalls' = d.calls
                           /\ IF IsRaise(d.r) THEN RunFails(d.r)
                              ELSE pc' = "done" /\ runErr' = runErr
    /\ runCommand' = Str(<<"d", "e", "l", "e", "t", "e">>)
    /\ UNCHANGED <<runParameters, runFlush, runPrinted, runResolved, runLookups>>
    /\ UNCHANGED regVars
    /\ UNCHANGED notRun

(***************************************************************************)
(* Specifications                                                          *)
(***************************************************************************)
Init ==
    /\ NAMES = {}
    /\ VAR_VALUES = EmptyDict
    /\ vs = None
    /\ vsOut = None
    /\ ldObj = None
    /\ ldMode = FALSE
    /\ ldOut = None
    /\ inp = None
    /\ inpCall = None
    /\ inpSetArgs = {}
    /\ mrgLoaded = FALSE
    /\ mrgA = EmptyDict
    /\ mrgB = EmptyDict
    /\ mrgAB = None
    /\ mrgBA = None
    /\ docObj = None
    /\ docData = None
    /\ docOut = None
    /\ bpArgs = <<>>
    /\ bpOut = None
    /\ pc = "start"
    /\ runCommand = None
    /\ runArgs = None
    /\ runStdin = <<>>
    /\ runInputs = EmptyDict
    /\ runParameters = <<>>
    /\ runFlush = <<>>
    /\ runCalls = <<>>
    /\ runPrinted = None
    /\ runErr = None
    /\ runResolved = FALSE
    /\ runLookups = {}

NextVar == VsConstruct \/ VsResolve \/ VsValue
SpecVar == Init /\ [][NextVar]_vars

NextLoad == LdLoad \/ LdConstruct
SpecLoad == Init /\ [][NextLoad]_vars

NextInput == InNew \/ InSetValue \/ InSetValueFromPrompt \/ InGetValue
SpecInput == Init /\ [][NextInput]_vars

NextMerge == MgLoad \/ MgMerge \/ MgMergeReverse
SpecMerge == Init /\ [][NextMerge]_vars

Next ==
    \/ PushParseArgs
    \/ PushLoadInputs
    \/ PushLoadParameterFiles
    \/ PushProcessInputs
    \/ PushDryRun
    \/ PushFlush
    \/ PushBatchPut
    \/ DeleteMain
Spec == Init /\ [][Next]_vars

NextDoc == DocParse \/ DocCompile
SpecDoc == Init /\ [][NextDoc]_vars

NextBatch == BpAdd \/ BpBatchPut
SpecBatch == Init /\ [][NextBatch]_vars

(***************************************************************************)
(* Claims                                                                  *)
(***************************************************************************)
\* The template s from position i on, with every match of the reference
\* pattern replaced by the value bound to its name and all other text kept.
RECURSIVE ReplaceEach(_, _, _)
ReplaceEach(s, i, vals) ==
    IF i > Len(s) THEN <<>>
    ELSE LET e == MatchEnd(s, i)
         IN  IF e = 0 THEN <<s[i]>> \o ReplaceEach(s, i + 1, vals)
             ELSE vals[SubSeq(s, i + 2, e - 1)] \o ReplaceEach(s, e + 1, vals)

\* C2: whenever a read of VarString.value returns, the value is the
\* template with each $(name) occurrence of the template replaced by the
\* value bound to that name, and nothing else changed (inserted text is not
\* scanned again).
C2_ValueIsLiteralReplacement ==
    (vs # None /\ IsStr(vsOut)) =>
        vsOut.v = ReplaceEach(vs.string, 1,
                              [n \in DOMAIN VAR_VALUES |-> VAR_VALUES[n].value.v])

(***************************************************************************)
(* Claims about SSMParameter.load (SpecLoad)                               *)
(***************************************************************************)
\* ldObj is an entry that was handed to SSMParameter.load
LdLoaded == "Name" \in DOMAIN ldObj
LdBuilt == ldOut.t = "SSMParameter"

\* the entry's type is SecureString: given, or inferred from a KeyId field
EntryIsSecure(obj) ==
    \/ Get(obj, "Type") = Str(T_SecureString)
    \/ (~Has(obj, "Type") /\ Has(obj, "KeyId"))

\* C3: an entry with no Type loads as SecureString if it has a KeyId field,
\* otherwise as StringList if its Value is not a string, otherwise as String.
C3_TypeInference ==
    (LdLoaded /\ LdBuilt /\ ~Has(ldObj, "Type")) =>
        ldOut.type = IF Has(ldObj, "KeyId") THEN Str(T_SecureString)
                     ELSE IF ~IsStr(ldObj["Value"]) THEN Str(T_StringList)
                     ELSE Str(T_String)

\* the key-id the parameter reports (SSMParameter.key_id) is a key id
ParamHasKeyId(p) == Truthy(Dump(p.key_id, VAR_VALUES).r)
\* the entry gives a key id
EntryHasKeyId(obj) == Truthy(Get(obj, "KeyId"))

\* C4: every constructed parameter has a key-id iff its type is
\* SecureString; construction fails for a SecureString entry without KeyId
\* and for a String or StringList entry with KeyId.
C4_KeyIdIffSecure ==
    /\ LdBuilt => (ParamHasKeyId(ldOut) <=> ldOut.type = Str(T_SecureString))
    /\ (LdLoaded /\ EntryIsSecure(ldObj) /\ ~EntryHasKeyId(ldObj)) => IsRaise(ldOut)
    /\ (LdLoaded /\ ~EntryIsSecure(ldObj) /\ EntryHasKeyId(ldObj)) => IsRaise(ldOut)

\* C5: loading fails for every SecureString entry that carries a Value
\* field, whatever other fields (KeyId, EncryptedValue, Input) it carries.
C5_SecureValueAlwaysFails ==
    (LdLoaded /\ EntryIsSecure(ldObj) /\ Has(ldObj, "Value")) => IsRaise(ldOut)

(***************************************************************************)
(* Claims about Input (SpecInput)                                          *)
(***************************************************************************)
\* the last call was get_value without a key-id on a SecureString Input
InReadWithoutKey ==
    /\ inp # None /\ inp.type = Str(T_SecureString)
    /\ inpCall # None /\ inpCall.call = "get_value" /\ inpCall.arg = None

\* C7 as claimed: after any calls of set_value (encrypted unset, true or
\* false), set_value_from_prompt and get_value, get_value without a key-id
\* never returns the plaintext of a SecureString Input.
C7_NoPlaintextWithoutKey == InReadWithoutKey => inpCall.r # Str(S_secret)

\* C7 as amended: the same, when set_value was never called with
\* encrypted=False on the Input.
C7_NoPlaintextUnlessSetPlain ==
    (InReadWithoutKey /\ Bool(FALSE) \notin inpSetArgs) => inpCall.r # Str(S_secret)

\* C7 witness: the secret was handed to set_value (encrypted unset) and
\* typed at the prompt of a SecureString Input, get_value with a key-id has
\* returned it, and get_value without a key-id has just returned None.
C7_Witness ==
    /\ InReadWithoutKey /\ inpSetArgs = {None}
    /\ inp.encrypted_value = Str(S_secret)
    /\ inp.decrypted_value = Str(S_secret)
    /\ inpCall.r = None

(***************************************************************************)
(* Claims about Input.merge_inputs (SpecMerge)                             *)
(***************************************************************************)
\* both documents define Foo, with equal types and patterns that do not
\* conflict (a pattern is set when it is given and not empty)
MgCompatible ==
    /\ S_Foo \in DOMAIN mrgA /\ S_Foo \in DOMAIN mrgB
    /\ mrgA[S_Foo].type = mrgB[S_Foo].type
    /\ (Truthy(mrgA[S_Foo].pattern) /\ Truthy(mrgB[S_Foo].pattern))
          => mrgA[S_Foo].pattern = mrgB[S_Foo].pattern

\* two patterns are the same: both unset, or equal
SamePattern(p, q) == (Truthy(p) \/ Truthy(q)) => p = q

\* C8: for two definitions of an Input with equal types and
\* non-conflicting patterns, merging either into the other succeeds and
\* gives the same type and the same pattern (the pattern that is set, if
\* one is).
C8_MergeOrder ==
    (MgCompatible /\ mrgAB # None /\ mrgBA # None) =>
        /\ ~IsRaise(mrgAB.r) /\ ~IsRaise(mrgBA.r)
        /\ mrgAB.inputs[S_Foo].type = mrgBA.inputs[S_Foo].type
        /\ mrgAB.inputs[S_Foo].type = mrgA[S_Foo].type
        /\ SamePattern(mrgAB.inputs[S_Foo].pattern, mrgBA.inputs[S_Foo].pattern)
        /\ \A q \in {mrgA[S_Foo].pattern, mrgB[S_Foo].pattern} :
              Truthy(q) => mrgAB.inputs[S_Foo].pattern = q

\* C8 witness: only the second definition has a pattern, and both merges
\* were made and carry it.
C8_Witness ==
    /\ MgCompatible /\ mrgAB # None /\ mrgBA # None
    /\ ~Truthy(mrgA[S_Foo].pattern) /\ Truthy(mrgB[S_Foo].pattern)
    /\ mrgAB.inputs[S_Foo].pattern = mrgB[S_Foo].pattern
    /\ mrgBA.inputs[S_Foo].pattern = mrgB[S_Foo].pattern

(***************************************************************************)
(* Claims about parse_parameter_file / compile_parameter_file (SpecDoc)    *)
(***************************************************************************)
\* the compiled Value is the Value of the source entry (a list of the
\* source counting as its comma-joined text)
SameValue(src, out) ==
    \/ out = src
    \/ IsList(src) /\ out = JoinValues(src.v)

\* the compiled entry out has the Type (when the source gives one), Value,
\* KeyId, AllowedPattern and Description of the source entry src
SameEntry(src, out) ==
    /\ Has(src, "Type") => Get(out, "Type") = src["Type"]
    /\ SameValue(Get(src, "Value"), Get(out, "Value"))
    /\ \A f \in {"KeyId", "AllowedPattern", "Description"} : Get(out, f) = Get(src, f)

\* C9: a document without references and without Disable/Overwrite, parsed
\* and compiled, gives the same parameter keys and, for each, the Type,
\* Value, KeyId, AllowedPattern and Description of the source entry.
C9_RoundTrip ==
    (docOut # None /\ ~IsRaise(docOut.r)) =>
        /\ {n \in DOMAIN docOut.r.v : ~StartsWithDot(n)} = Range(ParamKeys(docObj.v))
        /\ \A n \in Range(ParamKeys(docObj.v)) :
              n \in DOMAIN docOut.r.v
                 => SameEntry(ParamEntry(docObj.v, n), docOut.r.v[n].v)

(***************************************************************************)
(* Claims about SSMClient.batch_put (SpecBatch)                            *)
(***************************************************************************)
\* the names of the enabled parameters of args, in argument order
EnabledNames(args) ==
    LET on == SelectSeq(args, LAMBDA p : ~ParamDisable(p, VAR_VALUES).r.v)
    IN  [i \in DOMAIN on |-> ParamName(on[i], VAR_VALUES).r]

\* C10: whatever the number of parameters handed to batch_put, the store
\* receives exactly one write for each enabled parameter and none for a
\* disabled one, in argument order.
C10_OneWritePerEnabled ==
    (bpOut # None /\ ~IsRaise(bpOut.r)) =>
        [i \in DOMAIN bpOut.puts |-> bpOut.puts[i]["Name"]] = EnabledNames(bpArgs)

(***************************************************************************)
(* Claims about the runs (Spec)                                            *)
(***************************************************************************)
\* C1: a VarString value is only read once the resolution pass has
\* completed, and a read never looks up a name that has no binding.
C1_ResolveBeforeRead ==
    /\ runLookups # {} => (runResolved /\ runLookups \subseteq DOMAIN VAR_VALUES)
    /\ runErr # Raise("KeyError")

\* C1 witness: a push run has resolved Foo and, reading the value of /p,
\* has written the text bound to Foo.
C1_Witness ==
    /\ pc = "done" /\ runResolved /\ S_Foo \in runLookups
    /\ \E i \in DOMAIN runCalls :
          /\ runCalls[i].op = "put_parameter"
          /\ runCalls[i].kwargs["Value"] = Str(S_bar)

\* C6: the names Region and Account are bound to the delegated lookups,
\* never to a user Input, whatever Inputs the run has.
C6_BuiltinsBypassInputs ==
    /\ N_Region \in DOMAIN VAR_VALUES => VAR_VALUES[N_Region] = RegionResolver
    /\ N_Account \in DOMAIN VAR_VALUES => VAR_VALUES[N_Account] = AccountResolver

\* some registered name other than Region and Account has no Input that
\* carries a value
RunInputMissing ==
    \E n \in NAMES \ {N_Region, N_Account} :
        n \notin DOMAIN runInputs \/ ~InputValueIsSet(runInputs[n])

\* C11: with prompting disabled, when a registered name other than Region
\* and Account has no Input carrying a value, process_inputs ends the run
\* with the input-missing exit and nothing was sent to the remote store;
\* and whenever the run ends with that exit (input missing, or a prompt
\* that failed its pattern) the remote store received no delete and no
\* write.
C11_InputErrorAborts ==
    /\ [][(pc = "loaded" /\ ~runArgs.prompt /\ RunInputMissing)
            => (pc' = "failed" /\ runErr' = Raise("SystemExit: 1")
                /\ runCalls' = <<>>)]_vars
    /\ [](runErr = Raise("SystemExit: 1") => (pc = "failed" /\ runCalls = <<>>))

\* C11 witness: a push run without prompting has loaded a file that
\* references Foo, no Input carries a value for it, and the run has ended
\* with the exit, the remote store untouched.
C11_Witness ==
    /\ pc = "failed" /\ runErr = Raise("SystemExit: 1")
    /\ ~runArgs.prompt /\ S_Foo \in NAMES /\ RunInputMissing
    /\ runCalls = <<>>

\* the positions of the writes and of the deletions among the remote calls
RunPuts == {i \in DOMAIN runCalls : runCalls[i].op = "put_parameter"}

RunDeletes == {i \in DOMAIN runCalls : runCalls[i].op = "delete_path"}

\* C12: in a push run every deletion of a flush path comes before the
\* first parameter write: no deletion stands after a write in the order of
\* the remote calls, and once a write was issued in a run with the delete
\* flag every flush path of the merged unit has been deleted.
C12_FlushBeforeWrites ==
    /\ \A i \in RunPuts : \A j \in RunDeletes : j < i
    /\ (RunPuts # {} /\ runArgs.delete) =>
          \A k \in DOMAIN runFlush :
              \E j \in RunDeletes : runCalls[j].path = runFlush[k]

\* C12 witness: a push run with the delete flag has deleted a flush path
\* and written a parameter.
C12_Witness ==
    /\ runCommand = Str(<<"p", "u", "s", "h">>) /\ pc = "done"
    /\ runArgs.delete /\ RunDeletes # {} /\ RunPuts # {}

\* the text of the value an Input holds, a list comma-joined
InStoredText ==
    IF IsList(inp.value)
    THEN Join(<<",">>, [k \in DOMAIN inp.value.v |-> inp.value.v[k].v])
    ELSE inp.value.v

\* set_value_from_prompt has just returned without error on a String or
\* StringList Input that has a pattern
InPromptedWithPattern ==
    /\ inpCall # None
    /\ inpCall.call = "set_value_from_prompt" /\ inpCall.r = None
    /\ inp.type \in {Str(T_String), Str(T_StringList)}
    /\ Truthy(inp.pattern)

\* C13: when set_value_from_prompt returns without error on a String or
\* StringList Input that has a pattern, the value it stored (a list
\* comma-joined) matches the pattern, whether it was typed, given as one
\* comma-delimited line or taken from the default.
C13_PromptedValueMatchesPattern ==
    InPromptedWithPattern => ReSearch(inp.pattern.v, InStoredText)

\* a StringList Input was prompted, the first line typed was not blank
\* and held no comma, and the call returned without error
InTypedList ==
    /\ inpCall # None
    /\ inpCall.call = "set_value_from_prompt" /\ inpCall.r = None
    /\ inp.type = Str(T_StringList)
    /\ Head(inpCall.arg) # <<>> /\ ~Contains(Head(inpCall.arg), <<",">>)

\* the lines typed before the first blank line, as a list
InLinesBeforeBlank ==
    LET lines == inpCall.arg
        n == CHOOSE k \in 1..Len(lines) :
                lines[k] = <<>> /\ \A j \in 1..(k - 1) : lines[j] # <<>>
    IN  List([k \in 1..(n - 1) |-> Str(lines[k])])

\* C16: when a StringList Input is prompted and the first line is not
\* blank and has no comma, the stored list is exactly the non-blank lines
\* typed before the terminating blank line, one element per line; the
\* blank terminator is not an element.
C16_ListIsTypedLines == InTypedList => inp.value = InLinesBeforeBlank

\* the top-level keys of the parsed document that are not reserved
DcParameterKeys == DOMAIN docObj.v \ {INPUT_KEY, COMMON_KEY, FLUSH_KEY}

\* C14: parse_parameter_file yields exactly one parameter for every
\* top-level key of the document other than .INPUT, .COMMON and .FLUSH,
\* and none for these three.
C14_OneParameterPerKey ==
    (docData # None /\ ~IsRaise(docData.r)) =>
        /\ {docData.parameters[i].name : i \in DOMAIN docData.parameters}
              = DcParameterKeys
        /\ Len(docData.parameters) = Cardinality(DcParameterKeys)

\* the run is a push run with --dry-run, its arguments parsed
RunIsDryRun ==
    /\ runCommand = Str(<<"p", "u", "s", "h">>) /\ pc # "start"
    /\ runArgs.dry_run

\* the i-th parameter of the merged unit has no value; its entry says
\* Disable: true
RunNoValue(i) == runParameters[i].parameter.value = None

RunDisabled(i) == runParameters[i].parameter.disable = Bool(TRUE)

\* C15: compiled with ignore_disabled=True (the dry run), a parameter with
\* Disable: true and no value has no entry in the compiled output and is
\* never the cause of a missing-value error: that error only ends the
\* compilation when an enabled parameter has no value; and reading the
\* value of an enabled parameter that has none raises the missing-value
\* error.
C15_DisabledWithoutValue ==
    /\ (RunIsDryRun /\ pc = "done") =>
          \A i \in DOMAIN runParameters :
              (RunNoValue(i) /\ RunDisabled(i))
                  => runParameters[i].name \notin DOMAIN runPrinted.v
    /\ (RunIsDryRun /\ runErr = Raise("ValueError: Value missing")) =>
          \E i \in DOMAIN runParameters : RunNoValue(i) /\ ~RunDisabled(i)
    /\ runResolved =>
          \A i \in DOMAIN runParameters :
              (RunNoValue(i) /\ runParameters[i].parameter.disable = None)
                  => ParamValue(runParameters[i].parameter, VAR_VALUES).r
                        = Raise("ValueError: Value missing")

\* C15 witness: a dry run has compiled and printed a unit that holds a
\* disabled parameter without a value beside an enabled one with a value.
C15_Witness ==
    /\ RunIsDryRun /\ pc = "done"
    /\ \E i \in DOMAIN runParameters : RunNoValue(i) /\ RunDisabled(i)
    /\ S_p \in DOMAIN runPrinted.v

\* C17: a push run that ends with the missing-value error of an enabled
\* parameter has ended before any flush path was deleted and before any
\* parameter was written: the remote store received no call.
C17_MissingValueBeforeRemoteCalls ==
    (runCommand = Str(<<"p", "u", "s", "h">>)
        /\ runErr = Raise("ValueError: Value missing"))
      => runCalls = <<>>

\* the names referenced by the parameters of the merged unit
RunReferenced ==
    UNION { NamesOf(runParameters[i].parameter.name)
            \cup NamesOf(runParameters[i].parameter.key_id)
            \cup NamesOf(runParameters[i].parameter.value)
            \cup NamesOf(runParameters[i].parameter.allowed_pattern)
            \cup NamesOf(runParameters[i].parameter.disable) :
            i \in DOMAIN runParameters }

\* C18: once the resolution pass of a run has returned, the names it
\* resolved are exactly the names referenced by the parameters of the
\* final merged unit; a name referenced only by a parameter that a later
\* document overrode is not among them.
C18_ResolvedAreReferenced ==
    runResolved => DOMAIN VAR_VALUES = RunReferenced

====
